---- MODULE Spec2Model ----
(***************************************************************************)
(* Model of rajayeswanth/code_evaluator:                                   *)
(*   - evaluator_service/code_evaluator.py  (CodeEvaluator)                *)
(*   - evaluator_service/openai_service.py  (OpenAIService parser)         *)
(*   - cache_utils.py                       (the three cache decorators)   *)
(*                                                                         *)
(* Python values are modelled as records with a fixed set of fields; a     *)
(* field "k" tags the Python type or the absence of a dict key, so that    *)
(* dict.get(key, default), isinstance() and the exceptions raised on a     *)
(* value of the wrong type can be computed as the code computes them.      *)
(***************************************************************************)
EXTENDS Integers, Naturals, Sequences, FiniteSets, Bags, TLC

(* ---------------------------- bounds ----------------------------------- *)
\* number of artifacts (files) a batch may hold
NumFiles == 2
\* magnitude of the point values the external model reports
MaxPts == 1
\* number of callers that may be inside a cache wrapper at the same time
NumCallers == 2
\* number of distinct argument lists a wrapped operation is called with
NumArgs == 2
\* number of distinct payloads the wrapped operation may return
NumVals == 2
\* number of tokens (words, whitespace, lines) of a response text
MaxTokens == 3
\* number of topic tags handed to _create_overall_feedback_from_topics
MaxTopics == 2

(* ------------------------ program constants ---------------------------- *)
\* Config.MAX_WORKERS
MAX_WORKERS == 3
\* issue.get('points', 2): the default deduction of an issue without points
DEFAULT_POINTS == 2
\* llm_calls_count += 2
CALLS_PER_FILE == 2

\* the smallest batch that fills the worker pool and leaves a task waiting
PoolFiles == MAX_WORKERS + 1

\* the file names: enough for a batch of NumFiles and for one of PoolFiles
Files == 1..(IF NumFiles > PoolFiles THEN NumFiles ELSE PoolFiles)

Abs(n) == IF n < 0 THEN -n ELSE n

RECURSIVE SumSeq(_)
SumSeq(s) == IF s = <<>> THEN 0 ELSE Head(s) + SumSeq(Tail(s))

(* ------------------------- Python values ------------------------------- *)
\* a dict key holding a number, a value of another type, or missing
IntVal(n) == [k |-> "int", v |-> n]
BadVal == [k |-> "bad", v |-> 0]
AbsentVal == [k |-> "absent", v |-> 0]

\* one element of result['result']['issues']: a dict {issue, points} or
\* something that is no dict
Issue(desc, pts) == [k |-> "dict", issue |-> desc, points |-> pts]
NotDictIssue == [k |-> "other", issue |-> "", points |-> AbsentVal]

\* the 'result' key of a per-file result
ResultAbsent == [k |-> "absent", issues |-> <<>>]
ResultCorrect == [k |-> "correct", issues |-> <<>>]
ResultOther == [k |-> "other", issues |-> <<>>]
ResultIssues(iss) == [k |-> "dict", issues |-> iss]

\* the 'topics_lacking' key of a per-file result
TopicsAbsent == [k |-> "absent", v |-> {}]
TopicsNull == [k |-> "null", v |-> {}]
TopicsOf(S) == [k |-> "list", v |-> S]

\* the 'feedback' text of a result: a message and the file it names (0: none);
\* text is the wording of the external model when the message is its own
Feedback(message, filename) ==
  [msg |-> message, file |-> filename, text |-> <<>>]

\* Python None, a value that is no dict (a string, a list), and the marker of
\* a call that raised instead of returning
None ==
  [status |-> "None", feedback |-> Feedback("", 0), total_points_lost |-> 0,
   deductions |-> <<>>, result |-> ResultAbsent,
   topics_lacking |-> TopicsAbsent, tokens |-> AbsentVal]
NotADict ==
  [status |-> "NotADict", feedback |-> Feedback("", 0), total_points_lost |-> 0,
   deductions |-> <<>>, result |-> ResultAbsent,
   topics_lacking |-> TopicsAbsent, tokens |-> AbsentVal]
Raised ==
  [status |-> "Raised", feedback |-> Feedback("", 0), total_points_lost |-> 0,
   deductions |-> <<>>, result |-> ResultAbsent,
   topics_lacking |-> TopicsAbsent, tokens |-> AbsentVal]

(* ------------------ openai_service.py: the parser ---------------------- *)
\* OpenAIService._create_error_response
create_error_response(error_type) ==
  [status |-> "error", feedback |-> Feedback(error_type, 0), total_points_lost |-> 0,
   deductions |-> <<>>, result |-> ResultAbsent,
   topics_lacking |-> TopicsAbsent, tokens |-> AbsentVal]

\* The raw text of the external model, by what json.loads makes of it:
\*   "null"    the content is None (response.strip() raises)
\*   "text"    not valid JSON
\*   "nonobj"  valid JSON that is no object (parsed.get raises)
\*   "object"  a JSON object; pl is its points_lost:
\*               absent | int n | float (integer part n) | str_int "n" |
\*               str_bad (int() raises ValueError) |
\*               inf (JSON Infinity) | other (list, null, object)
\* content is the text as a sequence of tokens (whitespace, words, lines):
\* the whole response when it is no JSON, the member "feedback" of an object
RawNull == [k |-> "null", pl |-> "absent", n |-> 0, content |-> <<>>]
RawText == [k |-> "text", pl |-> "absent", n |-> 0, content |-> <<>>]
RawNonObject == [k |-> "nonobj", pl |-> "absent", n |-> 0, content |-> <<>>]
RawObject(kind, num) ==
  [k |-> "object", pl |-> kind, n |-> num, content |-> <<>>]

\* a response with the given text
WithContent(raw, content) == [raw EXCEPT !.content = content]

\* whitespace tokens
Whitespace == {" ", "\n"}

\* str.strip(): leading and trailing whitespace removed
RECURSIVE lstrip(_)
lstrip(text) ==
  IF text # <<>> /\ Head(text) \in Whitespace THEN lstrip(Tail(text)) ELSE text

RECURSIVE rstrip(_)
rstrip(text) ==
  IF text # <<>> /\ text[Len(text)] \in Whitespace
  THEN rstrip(SubSeq(text, 1, Len(text) - 1))
  ELSE text

strip(text) == lstrip(rstrip(text))

\* the value of points_lost after lines 226-240
points_lost_of(response) ==
  CASE response.k = "text" -> 0
    [] response.pl = "absent" -> 0
    [] response.pl = "int" -> response.n
    [] response.pl = "float" -> response.n
    [] response.pl = "str_int" -> response.n
    [] response.pl = "str_bad" -> 0
    [] OTHER -> 0

\* the feedback of the result: the stripped response when it is no JSON
\* (line 239), parsed.get("feedback", "") of an object (line 225)
feedback_of(response) ==
  [Feedback("llm", 0) EXCEPT
     !.text = IF response.k = "text" THEN strip(response.content)
              ELSE response.content]

\* lines 219-249, the body of the outer try: the result, or Raised when a
\* statement raises something the inner handlers do not catch
\* (None.strip(), parsed.get on a non-object, int(Infinity))
parse_body(response) ==
  IF response.k \in {"null", "nonobj"}
     \/ (response.k = "object" /\ response.pl = "inf")
  THEN Raised
  ELSE [status |-> "success", feedback |-> feedback_of(response),
        total_points_lost |-> points_lost_of(response),
        deductions |-> <<>>, result |-> ResultAbsent,
        topics_lacking |-> TopicsAbsent, tokens |-> AbsentVal]

\* mutant: the outer handler is missing
parse_evaluation_response_unguarded(response) == parse_body(response)

\* OpenAIService._parse_evaluation_response
parse_evaluation_response(response) ==
  IF parse_body(response) = Raised
  THEN create_error_response("PARSE_ERROR")
  ELSE parse_body(response)

\* OpenAIService.evaluate_code, lines 110-125: the parsed result with the
\* token usage of the response added
with_tokens(result, usage) == [result EXCEPT !.tokens = usage]

(* ------------- the external call of evaluate_single_file --------------- *)
\* What one call of openai_service.evaluate_code_with_rubric can hand back.
\* The texts the external model may produce, parsed by the parser above:
RawResponses ==
  {RawNull, RawText, RawNonObject}
    \cup {RawObject(kind, 0) : kind \in {"absent", "str_bad", "inf", "other"}}
    \cup {RawObject(kind, n) : kind \in {"int", "float", "str_int"},
                               n \in {-MaxPts, 0, MaxPts}}

\* token usage of one call
Usage == IntVal(1)

ParsedResults ==
  {with_tokens(parse_evaluation_response(r), Usage) : r \in RawResponses}

\* The result shape evaluate_all_files reads (lines 144-172): status, the
\* key 'result' ("correct" or {'issues': [...]}), 'topics_lacking', tokens.
RichResult(res, topics, usage) ==
  [status |-> "success", feedback |-> Feedback("llm", 0), total_points_lost |-> 0,
   deductions |-> <<>>, result |-> res, topics_lacking |-> topics,
   tokens |-> usage]

Topics == {"loop_control", "array_handling"}

IssueLists ==
  {<<NotDictIssue>>, <<Issue("a", AbsentVal)>>, <<Issue("a", BadVal)>>}
    \cup {<<Issue("a", IntVal(n))>> : n \in {-MaxPts, MaxPts}}
    \cup {<<Issue("a", IntVal(MaxPts)), Issue(d, IntVal(MaxPts))>> :
            d \in {"a", "b"}}

RichResults ==
  {RichResult(ResultCorrect, TopicsAbsent, Usage),
   RichResult(ResultOther, TopicsAbsent, Usage),
   RichResult(ResultCorrect, TopicsNull, Usage),
   RichResult(ResultCorrect, TopicsOf({"loop_control"}), Usage),
   RichResult(ResultCorrect, TopicsAbsent, BadVal)}
    \cup {RichResult(ResultIssues(iss), TopicsAbsent, Usage) :
            iss \in IssueLists}
    \cup {RichResult(ResultIssues(<<Issue("a", IntVal(MaxPts))>>),
                     TopicsOf(Topics), Usage)}

\* every outcome of one call: a result, None, a non-dict, or an exception
CallOutcomes == {None, NotADict, Raised} \cup ParsedResults \cup RichResults

(* ------------------- code_evaluator.py: CodeEvaluator ------------------ *)
\* mutant: the error result keeps a point total
create_error_result_with_points(filename, error_message) ==
  [status |-> "error", feedback |-> Feedback(error_message, filename),
   total_points_lost |-> 1, deductions |-> <<>>, result |-> ResultAbsent,
   topics_lacking |-> TopicsAbsent, tokens |-> AbsentVal]

\* CodeEvaluator._create_error_result
create_error_result(filename, error_message) ==
  [status |-> "error", feedback |-> Feedback(error_message, filename), total_points_lost |-> 0,
   deductions |-> <<>>, result |-> ResultAbsent,
   topics_lacking |-> TopicsAbsent, tokens |-> AbsentVal]

\* "if not x": None is falsy, every result dict modelled here is non-empty
Falsy(x) == x.status = "None"

\* mutant: the choice looks at the number of deductions only
reconcile_by_deductions_only(initial_result, double_check_result) ==
  IF Falsy(double_check_result) THEN initial_result
  ELSE IF Len(double_check_result.deductions) > Len(initial_result.deductions)
       THEN double_check_result
  ELSE initial_result

\* evaluate_single_file, lines 55-69: the choice between the two results
reconcile(initial_result, double_check_result) ==
  IF Falsy(double_check_result) THEN initial_result
  ELSE IF initial_result.status = "error"
          /\ double_check_result.status # "error"
       THEN double_check_result
  ELSE IF Len(double_check_result.deductions) > Len(initial_result.deductions)
       THEN double_check_result
  ELSE initial_result

\* evaluate_single_file, lines 48-79, once the initial result is truthy:
\* what the task returns for the outcome of the double-check call. A value
\* that is no dict makes .get() or the item assignment of line 74 raise.
single_file_result(filename, initial_result, double_check_result) ==
  IF double_check_result = Raised
     \/ initial_result = NotADict
     \/ double_check_result = NotADict
  THEN create_error_result(filename, "exception")
  ELSE reconcile(initial_result, double_check_result)

\* lab_feedback entries: "correct", {description: "-N points"}, "Error - ..."
LabCorrect == [k |-> "correct", issues |-> <<>>, feedback |-> Feedback("", 0)]
LabIssues(formatted) ==
  [k |-> "issues", issues |-> formatted, feedback |-> Feedback("", 0)]
LabError(fb) == [k |-> "error", issues |-> <<>>, feedback |-> fb]

\* abs(issue.get('points', 2)) of a dict issue with numeric or missing points
issue_points(issue) ==
  IF issue.points.k = "absent" THEN Abs(DEFAULT_POINTS)
  ELSE Abs(issue.points.v)

\* issue.get(...) raises on a non-dict, abs() raises on a non-number
issue_raises(issue) == issue.k # "dict" \/ issue.points.k = "bad"

\* formatted_issues: a dict keyed by description, a later issue with the
\* same description replaces the earlier one
formatted_issues(issues) ==
  [d \in {issues[i].issue : i \in DOMAIN issues} |->
     LET last == CHOOSE i \in DOMAIN issues :
                   /\ issues[i].issue = d
                   /\ \A j \in DOMAIN issues : issues[j].issue = d => j <= i
     IN issue_points(issues[last])]

\* file_points_lost: the sum over all issues of the list
file_points_lost(issues) ==
  SumSeq([i \in DOMAIN issues |-> issue_points(issues[i])])

\* evaluate_all_files, lines 144-174: one pass of the formatting loop for one
\* result: whether it raises, the lab_feedback entry, the points added to
\* total_points_lost and the topics added to all_topics_lacking
format_result(result) ==
  IF result.status # "error"
  THEN LET result_data == result.result
           issues == result_data.issues
           raises ==
             \/ result_data.k = "other"
             \/ \E i \in DOMAIN issues : issue_raises(issues[i])
             \/ result.topics_lacking.k = "null"
       IN IF raises
          THEN [raised |-> TRUE, lab |-> LabCorrect, points |-> 0, topics |-> {}]
          ELSE IF result_data.k = "correct" \/ issues = <<>>
          THEN [raised |-> FALSE, lab |-> LabCorrect, points |-> 0,
                topics |-> result.topics_lacking.v]
          ELSE [raised |-> FALSE, lab |-> LabIssues(formatted_issues(issues)),
                points |-> file_points_lost(issues),
                topics |-> result.topics_lacking.v]
  ELSE [raised |-> FALSE, lab |-> LabError(result.feedback), points |-> 0,
        topics |-> {}]

\* topic.replace('_', ' ') on the tags that the lookup table does not hold;
\* a tag without an underscore is left as it is
replace_underscores(topic) ==
  CASE topic = "loop_implementation" -> "loop implementation"
    [] topic = "array_manipulation" -> "array manipulation"
    [] OTHER -> topic

\* topic_mapping.get(topic, topic.replace('_', ' '))
readable_topic(topic) ==
  CASE topic = "array_handling" -> "array manipulation"
    [] topic = "loop_control" -> "loop implementation"
    [] topic = "variable_scope" -> "variable usage"
    [] topic = "function_definition" -> "function creation"
    [] topic = "conditional_statements" -> "if/else logic"
    [] topic = "input_output" -> "input/output operations"
    [] topic = "basic_calculations" -> "mathematical operations"
    [] OTHER -> replace_underscores(topic)

\* the orders in which Python may iterate over a set
Orders(S) ==
  {s \in [1..Cardinality(S) -> S] : \A i, j \in DOMAIN s : s[i] = s[j] => i = j}

\* CodeEvaluator._create_overall_feedback_from_topics; order is the order in
\* which the loop of line 368 visits the set
create_overall_feedback_from_topics(topics_lacking, order, total_points_lost) ==
  IF topics_lacking = {} /\ total_points_lost = 0
  THEN [k |-> "excellent", topics |-> <<>>, total |-> 0]
  ELSE LET readable_topics ==
             IF topics_lacking = {} THEN <<"general programming concepts">>
             ELSE [i \in DOMAIN order |-> readable_topic(order[i])]
       IN IF total_points_lost = 0
          THEN [k |-> "good_progress", topics |-> readable_topics, total |-> 0]
          ELSE [k |-> "needs_improvement", topics |-> readable_topics,
                total |-> total_points_lost]

(* ------------------------------ state ---------------------------------- *)
VARIABLES
  codes,               \* the batch: the file names handed to evaluate_all_files
  rubrics,             \* the file names that have an entry in the rubrics dict
  pc,                  \* evaluate_all_files: submit, collect, returned, raised
  task,                \* per file: idle, queued, initial, double, done, collected
  initial_result,      \* per file: the result of the first call, once made
  future,              \* per file: what evaluate_single_file returned
  evaluation_results,  \* the dict of line 96, in insertion order
  total_tokens,        \* aggregated token usage
  llm_calls_count,     \* counter of line 100
  report,              \* the dict evaluate_all_files returns
  calls_issued,        \* external model calls made so far (lines 39 and 49)
  wrapper,             \* cache_utils: the decorator in use: api, db or llm
  fn_kind,             \* the type of value the wrapped operation returns
  cache,               \* the backend: cache key -> stored entry
  inflight,            \* the bag of calls that are past a lookup miss
  returned,            \* what the wrapper call that just ended gave its caller
  single,              \* one call of evaluate_single_file, followed on its own
  response,            \* the text handed to _parse_evaluation_response
  parsed,              \* what _parse_evaluation_response returned for it
  llm_pair,            \* two calls of a cache_llm_response wrapper and their keys
  overall              \* one call of _create_overall_feedback_from_topics

evalVars ==
  <<codes, rubrics, pc, task, initial_result, future, evaluation_results,
    total_tokens, llm_calls_count, report, calls_issued>>

cacheVars == <<wrapper, fn_kind, cache, inflight, returned>>

unitVars == <<single, response, parsed, llm_pair, overall>>

vars == <<evalVars, cacheVars, unitVars>>

NoReport ==
  [lab_feedback |-> <<>>, overall_feedback |-> [k |-> "", topics |-> <<>>, total |-> 0],
   total_points_lost |-> 0, file_results |-> <<>>, files_evaluated |-> 0,
   total_tokens |-> 0, llm_calls_count |-> 0]

\* the evaluator before evaluate_all_files is called with a batch
EvalStart(batches) ==
  /\ codes \in batches
  /\ pc = "submit"
  /\ task = [f \in Files |-> "idle"]
  /\ initial_result = [f \in Files |-> None]
  /\ future = [f \in Files |-> None]
  /\ evaluation_results = <<>>
  /\ total_tokens = 0
  /\ llm_calls_count = 0
  /\ report = NoReport
  /\ calls_issued = 0

\* the rubrics argument: an entry for every file of the batch (complete), or
\* for any part of the batch
RubricsStart(complete) ==
  rubrics \in IF complete THEN {codes} ELSE SUBSET codes

\* line 109: rubrics.get(filename, {})
file_rubric(filename) == IF filename \in rubrics THEN "rubric" ELSE "empty"

Running == {f \in Files : task[f] \in {"initial", "double"}}

\* lines 106-114: executor.submit for the next file of codes.items(); the
\* task is submitted with the rubric of the file or with {}
Submit(f) ==
  /\ pc = "submit"
  /\ f \in codes /\ task[f] = "idle"
  /\ \A g \in codes : g < f => task[g] # "idle"
  /\ task' = [task EXCEPT ![f] = "queued"]
  /\ pc' = IF \A g \in codes \ {f} : task[g] # "idle" THEN "collect" ELSE "submit"
  /\ UNCHANGED <<codes, rubrics, initial_result, future, evaluation_results,
                 total_tokens, llm_calls_count, report, calls_issued>>
  /\ UNCHANGED <<cacheVars, unitVars>>

\* a pool that starts every queued task at once, whatever its width
StartTask_unbounded(f) ==
  /\ task[f] = "queued"
  /\ \A g \in Files : task[g] = "queued" => f <= g
  /\ task' = [task EXCEPT ![f] = "initial"]
  /\ UNCHANGED <<codes, rubrics, pc, initial_result, future, evaluation_results,
                 total_tokens, llm_calls_count, report, calls_issued>>
  /\ UNCHANGED <<cacheVars, unitVars>>

\* ThreadPoolExecutor(max_workers=MAX_WORKERS): a free worker takes the
\* oldest queued task
StartTask(f) ==
  /\ task[f] = "queued"
  /\ \A g \in Files : task[g] = "queued" => f <= g
  /\ Cardinality(Running) < MAX_WORKERS
  /\ task' = [task EXCEPT ![f] = "initial"]
  /\ UNCHANGED <<codes, rubrics, pc, initial_result, future, evaluation_results,
                 total_tokens, llm_calls_count, report, calls_issued>>
  /\ UNCHANGED <<cacheVars, unitVars>>

\* evaluate_single_file, lines 37-46 and 78-79: the initial call
InitialCall(f, r) ==
  /\ task[f] = "initial"
  /\ IF r = Raised
     THEN /\ future' = [future EXCEPT ![f] = create_error_result(f, "exception")]
          /\ task' = [task EXCEPT ![f] = "done"]
          /\ UNCHANGED initial_result
     ELSE IF Falsy(r)
     THEN /\ future' = [future EXCEPT ![f] =
                 create_error_result(f, "Failed to get initial evaluation")]
          /\ task' = [task EXCEPT ![f] = "done"]
          /\ UNCHANGED initial_result
     ELSE /\ initial_result' = [initial_result EXCEPT ![f] = r]
          /\ task' = [task EXCEPT ![f] = "double"]
          /\ UNCHANGED future
  /\ calls_issued' = calls_issued + 1
  /\ UNCHANGED <<codes, rubrics, pc, evaluation_results, total_tokens,
                 llm_calls_count, report>>
  /\ UNCHANGED <<cacheVars, unitVars>>

\* evaluate_single_file, lines 48-79: the double-check call and the choice
DoubleCheckCall(f, r) ==
  /\ task[f] = "double"
  /\ future' = [future EXCEPT ![f] =
        single_file_result(f, initial_result[f], r)]
  /\ initial_result' = [initial_result EXCEPT ![f] = None]
  /\ task' = [task EXCEPT ![f] = "done"]
  /\ calls_issued' = calls_issued + 1
  /\ UNCHANGED <<codes, rubrics, pc, evaluation_results, total_tokens,
                 llm_calls_count, report>>
  /\ UNCHANGED <<cacheVars, unitVars>>

\* lines 124-128 raise when a token count is no number
tokens_raise(result) == result.status # "error" /\ result.tokens.k = "bad"

\* the value evaluation_results[filename] holds after lines 119-133
collected_result(filename, result) ==
  IF tokens_raise(result) THEN create_error_result(filename, "exception")
  ELSE result

\* a collection loop that keeps the results of successful tasks only
Collect_keeping_successes(f) ==
  /\ pc = "collect"
  /\ task[f] = "done"
  /\ LET result == future[f]
     IN IF result.status # "error" /\ ~tokens_raise(result)
        THEN /\ evaluation_results' =
                  Append(evaluation_results, [filename |-> f, result |-> result])
             /\ total_tokens' = total_tokens + result.tokens.v
             /\ llm_calls_count' = llm_calls_count + CALLS_PER_FILE
        ELSE UNCHANGED <<evaluation_results, total_tokens, llm_calls_count>>
  /\ task' = [task EXCEPT ![f] = "collected"]
  /\ future' = [future EXCEPT ![f] = None]
  /\ UNCHANGED <<codes, rubrics, pc, initial_result, report, calls_issued>>
  /\ UNCHANGED <<cacheVars, unitVars>>

\* lines 117-133: as_completed yields a finished future
Collect(f) ==
  /\ pc = "collect"
  /\ task[f] = "done"
  /\ LET result == future[f]
     IN /\ evaluation_results' =
             Append(evaluation_results,
                    [filename |-> f, result |-> collected_result(f, result)])
        /\ IF result.status # "error" /\ ~tokens_raise(result)
           THEN /\ total_tokens' = total_tokens + result.tokens.v
                /\ llm_calls_count' = llm_calls_count + CALLS_PER_FILE
           ELSE UNCHANGED <<total_tokens, llm_calls_count>>
  /\ task' = [task EXCEPT ![f] = "collected"]
  /\ future' = [future EXCEPT ![f] = None]
  /\ UNCHANGED <<codes, rubrics, pc, initial_result, report, calls_issued>>
  /\ UNCHANGED <<cacheVars, unitVars>>

Formatted == [i \in DOMAIN evaluation_results |->
                format_result(evaluation_results[i].result)]

\* lines 135-190: the formatting loop, the overall feedback and the return
Aggregate(order) ==
  /\ pc = "collect"
  /\ \A f \in codes : task[f] = "collected"
  /\ LET total_points_lost == SumSeq([i \in DOMAIN Formatted |-> Formatted[i].points])
         all_topics_lacking == UNION {Formatted[i].topics : i \in DOMAIN Formatted}
     IN IF \E i \in DOMAIN Formatted : Formatted[i].raised
        THEN /\ pc' = "raised"
             /\ UNCHANGED report
        ELSE /\ order \in Orders(all_topics_lacking)
             /\ pc' = "returned"
             /\ report' =
                  [lab_feedback |->
                     [f \in {evaluation_results[i].filename :
                               i \in DOMAIN evaluation_results} |->
                        LET i == CHOOSE j \in DOMAIN evaluation_results :
                                   evaluation_results[j].filename = f
                        IN Formatted[i].lab],
                   overall_feedback |->
                     create_overall_feedback_from_topics(
                       all_topics_lacking, order, total_points_lost),
                   total_points_lost |-> total_points_lost,
                   file_results |->
                     [i \in DOMAIN evaluation_results |->
                        evaluation_results[i].result],
                   files_evaluated |-> Cardinality(codes),
                   total_tokens |-> total_tokens,
                   llm_calls_count |-> llm_calls_count]
  /\ UNCHANGED <<codes, rubrics, task, initial_result, future, evaluation_results,
                 total_tokens, llm_calls_count, calls_issued>>
  /\ UNCHANGED <<cacheVars, unitVars>>

TopicOrders == UNION {Orders(S) : S \in SUBSET Topics}

Next ==
  \/ \E f \in Files : Submit(f)
  \/ \E f \in Files : StartTask(f)
  \/ \E f \in Files, r \in CallOutcomes : InitialCall(f, r)
  \/ \E f \in Files, r \in CallOutcomes : DoubleCheckCall(f, r)
  \/ \E f \in Files : Collect(f)
  \/ \E order \in TopicOrders : Aggregate(order)

\* the outcomes of an external call followed when the pool is full: no
\* result, and a result that says the file is correct
PoolOutcomes == {None, RichResult(ResultCorrect, TopicsAbsent, Usage)}

\* evaluate_all_files on a batch larger than the pool
PoolNext ==
  \/ \E f \in Files : Submit(f)
  \/ \E f \in Files : StartTask(f)
  \/ \E f \in Files, r \in PoolOutcomes : InitialCall(f, r)
  \/ \E f \in Files, r \in PoolOutcomes : DoubleCheckCall(f, r)
  \/ \E f \in Files : Collect(f)
  \/ \E order \in TopicOrders : Aggregate(order)

\* a free worker takes the next queued task, and every external call ends
\* (it returns or raises)
PoolFairness ==
  \A f \in Files :
    /\ WF_vars(StartTask(f))
    /\ WF_vars(\E r \in PoolOutcomes : InitialCall(f, r))
    /\ WF_vars(\E r \in PoolOutcomes : DoubleCheckCall(f, r))

(* ====================== cache_utils.py: the wrappers =================== *)
Wrappers == {"api", "db", "llm"}
Args == 1..NumArgs

\* HTTP status of the DRF Response the wrapped view builds for payload v
status_of(v) == IF v = 1 THEN "200" ELSE "404"

\* Values of the wrapped operation fn, by Python type:
\*   Response      a DRF Response whose data is a dict
\*   ResponseList  a DRF Response whose data is a list
\*   dict, plain   a dict; a string, list or number
\*   None
\* v identifies the payload, of the arguments fn computed it for (0: none).
Value(kind, v, call_args) ==
  [k |-> kind, v |-> v, of |-> call_args,
   status_code |-> IF kind \in {"Response", "ResponseList"} THEN status_of(v) ELSE ""]
NoneValue == [k |-> "None", v |-> 0, of |-> 0, status_code |-> ""]
\* fn raised instead of returning
FnRaised == [k |-> "raise", v |-> 0, of |-> 0, status_code |-> ""]
\* no value at all (the wrapper's answer carries none)
NoValue == [k |-> "no value", v |-> 0, of |-> 0, status_code |-> ""]
\* a key the backend holds nothing for
Missing == [k |-> "missing", v |-> 0, of |-> 0, status_code |-> ""]

FnKinds == {"Response", "ResponseList", "dict", "plain"}

\* what one execution of fn(call_args) can do, for a wrapped operation of
\* the given type
FnOutcomes(kind, call_args) ==
  {Value(kind, v, call_args) : v \in 1..NumVals} \cup {NoneValue, FnRaised}

\* result.data of a DRF Response whose data is a dict
data_of(result) ==
  [k |-> "dict", v |-> result.v, of |-> result.of, status_code |-> ""]

\* generate_cache_key: md5 of "prefix:str(args):str(sorted(kwargs))"
generate_cache_key(prefix, call_args) == <<prefix, call_args>>

Keys == {generate_cache_key(w, a) : w \in Wrappers, a \in Args}

\* cache.get(key): None for a missing key and for a stored None
cache_get(entry) ==
  IF entry.k \in {"missing", "None"} THEN NoneValue ELSE entry

\* CacheInsights.to_dict(): the four flags of the insight record
Insights(hits, misses, sets, errors) ==
  [cache_hit |-> hits > 0, cache_miss |-> misses > 0,
   cache_set |-> sets > 0, cache_error |-> errors > 0]

\* the cache_insights attached to the returned envelope, if any
Attached(ins) == [present |-> TRUE, ins |-> ins]
NotAttached == [present |-> FALSE, ins |-> Insights(0, 0, 0, 0)]

\* What a wrapper call gives back. body is the shape of the answer:
\*   data        a DRF Response around the dict `value` (plus cache_insights)
\*   result_str  DRFResponse({"result": str(value), "cache_insights": ...})
\*   not_a_dict  DRFResponse({"cache_error": True, "details": ...})
\*   error_str   DRFResponse({"error": str(e), "cache_insights": ...})
\*   value       `value` itself (cache_db_query, cache_llm_response)
\*   raised      the wrapper raised
Answer(body, value, status_code, attached) ==
  [body |-> body, value |-> value, status_code |-> status_code,
   attached |-> attached]
AnswerRaised == Answer("raised", NoValue, "", NotAttached)

\* cache_api_response, lines 73-80: the answer on a hit
api_hit(cached_result) ==
  IF cached_result.k = "dict"
  THEN Answer("data", cached_result, "200", Attached(Insights(1, 0, 0, 0)))
  ELSE Answer("not_a_dict", NoValue, "200", NotAttached)

\* cache_api_response, lines 84-87: result.data["cache_insights"] = ... raises
\* TypeError when the data of the Response is a list
api_miss_raises(result) == result.k = "ResponseList"

\* cache_api_response, lines 86-116: the answer on a miss, once fn returned
\* result and cache.set succeeded (set_ok) or raised
api_miss(result, set_ok) ==
  CASE result.k = "Response" ->
         Answer("data", data_of(result), result.status_code,
                Attached(Insights(0, 1, 0, 0)))
    [] result.k = "dict" ->
         Answer("data", result, "200", Attached(Insights(0, 1, 0, 0)))
    [] OTHER ->
         Answer("result_str", result, "200",
                Attached(Insights(0, 1, IF set_ok THEN 1 ELSE 0,
                                  IF set_ok THEN 0 ELSE 1)))

\* cache_api_response, lines 90, 100, 110: the value handed to cache.set
api_stored(result) ==
  IF result.k = "Response" THEN data_of(result) ELSE result

\* cache_api_response, lines 117-127: the except branch, with fn's outcome
\* there; misses is insights.cache_misses when the branch is entered
api_except(result, misses) ==
  CASE result.k = "raise" -> AnswerRaised
    [] result.k = "ResponseList" -> AnswerRaised
    [] result.k = "Response" ->
         Answer("data", data_of(result), result.status_code,
                Attached(Insights(0, misses, 0, 1)))
    [] result.k = "dict" ->
         Answer("data", result, "200", Attached(Insights(0, misses, 0, 1)))
    [] OTHER ->
         Answer("error_str", NoValue, "200", Attached(Insights(0, misses, 0, 1)))

\* cache_db_query / cache_llm_response: the value is handed back as it is
raw_answer(result) ==
  IF result.k = "raise" THEN AnswerRaised
  ELSE Answer("value", result, "", NotAttached)

\* the answer of a hit
hit_answer(w, cached_result) ==
  IF w = "api" THEN api_hit(cached_result) ELSE raw_answer(cached_result)

\* whether the try body raises after fn returned result (before cache.set)
miss_raises(w, result) == w = "api" /\ api_miss_raises(result)

\* the answer of a miss on which fn returned result
miss_answer(w, result, set_ok) ==
  IF w = "api" THEN api_miss(result, set_ok) ELSE raw_answer(result)

\* the value the miss path stores
stored_value(w, result) == IF w = "api" THEN api_stored(result) ELSE result

\* the answer of the except branch
except_answer(w, result, misses) ==
  IF w = "api" THEN api_except(result, misses) ELSE raw_answer(result)

\* The record of a finished wrapper call: the answer, and what the call did.
\*   path      hit, miss, or except (the outer except branch ran)
\*   seen      the entry the backend held for the key at the lookup
\*   fn_runs   number of executions of fn in this call
\*   fn_result the value the last execution of fn returned
\*   fn_raised an execution of fn raised
\*   lookup    ok / failed: caches[alias] and cache.get
\*   set       ok / failed / none: cache.set
\*   insights  the CacheInsights object when the call ends
Return(a, path, seen, fn_runs, fn_result, fn_raised, lookup, set, insights, answer) ==
  [args |-> a, path |-> path, seen |-> seen,
   fn_runs |-> fn_runs, fn_result |-> fn_result, fn_raised |-> fn_raised,
   lookup |-> lookup, set |-> set, insights |-> insights, answer |-> answer]

NoReturn ==
  Return(0, "", Missing, 0, NoValue, FALSE, "", "none",
         Insights(0, 0, 0, 0), Answer("", NoValue, "", NotAttached))

\* a call past its lookup miss: its arguments and the entry the lookup saw
MissCall(a, entry) == [args |-> a, seen |-> entry]

\* no wrapper call is under way and the backend is empty
CacheStart(wrappers, kinds) ==
  /\ wrapper \in wrappers
  /\ fn_kind \in kinds
  /\ cache = [key \in Keys |-> Missing]
  /\ inflight = EmptyBag
  /\ returned = NoReturn

\* a caller is free to enter the wrapper, and the last answer was taken
CanCall == returned = NoReturn /\ BagCardinality(inflight) < NumCallers

\* A call whose lookup raises (caches[alias] or cache.get): the except branch
\* executes fn, whose outcome is o.
LookupFail(a, o) ==
  /\ CanCall
  /\ o \in FnOutcomes(fn_kind, a)
  /\ returned' =
       Return(a, "except", cache[generate_cache_key(wrapper, a)],
              1, IF o = FnRaised THEN NoValue ELSE o, o = FnRaised,
              "failed", "none", Insights(0, 0, 0, 1),
              except_answer(wrapper, o, 0))
  /\ UNCHANGED <<wrapper, fn_kind, cache, inflight>>
  /\ UNCHANGED <<evalVars, unitVars>>

\* A call whose lookup finds a value: the hit branch.
LookupHit(a) ==
  /\ CanCall
  /\ LET entry == cache[generate_cache_key(wrapper, a)]
         cached_result == cache_get(entry)
     IN /\ cached_result # NoneValue
        /\ returned' =
             Return(a, "hit", entry, 0, NoValue, FALSE, "ok",
                    "none", Insights(1, 0, 0, 0),
                    hit_answer(wrapper, cached_result))
  /\ UNCHANGED <<wrapper, fn_kind, cache, inflight>>
  /\ UNCHANGED <<evalVars, unitVars>>

\* A call whose lookup returns None: the miss branch is entered and fn is
\* about to run.
LookupMiss(a) ==
  /\ CanCall
  /\ LET entry == cache[generate_cache_key(wrapper, a)]
     IN /\ cache_get(entry) = NoneValue
        /\ inflight' = inflight (+) SetToBag({MissCall(a, entry)})
  /\ UNCHANGED <<wrapper, fn_kind, cache, returned>>
  /\ UNCHANGED <<evalVars, unitVars>>

\* The miss branch of the call m: fn runs (outcome o1), its result is stored
\* (set_ok says whether cache.set succeeds) and handed back. When fn or the
\* try body raises, the outer except branch runs fn a second time (outcome
\* o2).
RunMiss(m, o1, set_ok, o2) ==
  /\ returned = NoReturn
  /\ BagIn(m, inflight)
  /\ o1 \in FnOutcomes(fn_kind, m.args) /\ o2 \in FnOutcomes(fn_kind, m.args)
  /\ LET key == generate_cache_key(wrapper, m.args)
     IN IF o1 = FnRaised \/ miss_raises(wrapper, o1)
        THEN /\ set_ok
             /\ returned' =
                  Return(m.args, "except", m.seen, 2,
                         IF o2 = FnRaised THEN o1 ELSE o2,
                         o1 = FnRaised \/ o2 = FnRaised, "ok", "none",
                         Insights(0, 1, 0, 1), except_answer(wrapper, o2, 1))
             /\ UNCHANGED cache
        ELSE /\ o2 = o1
             /\ returned' =
                  Return(m.args, "miss", m.seen, 1, o1, FALSE, "ok",
                         IF set_ok THEN "ok" ELSE "failed",
                         Insights(0, 1, IF set_ok THEN 1 ELSE 0,
                                  IF set_ok THEN 0 ELSE 1),
                         miss_answer(wrapper, o1, set_ok))
             /\ cache' = IF set_ok
                         THEN [cache EXCEPT ![key] = stored_value(wrapper, o1)]
                         ELSE cache
  /\ inflight' = inflight (-) SetToBag({m})
  /\ UNCHANGED <<wrapper, fn_kind>>
  /\ UNCHANGED <<evalVars, unitVars>>

\* the return statement: the caller takes the answer of the call that ended
Deliver ==
  /\ returned # NoReturn
  /\ returned' = NoReturn
  /\ UNCHANGED <<wrapper, fn_kind, cache, inflight>>
  /\ UNCHANGED <<evalVars, unitVars>>

\* cache.set(key, value, timeout): the entry is dropped once its TTL is over
Expire(key) ==
  /\ returned = NoReturn
  /\ cache[key] # Missing
  /\ cache' = [cache EXCEPT ![key] = Missing]
  /\ UNCHANGED <<wrapper, fn_kind, inflight, returned>>
  /\ UNCHANGED <<evalVars, unitVars>>

MissCalls == {MissCall(a, e) : a \in Args, e \in {Missing, NoneValue}}

CacheNext ==
  \/ \E a \in Args : \E o \in FnOutcomes(fn_kind, a) : LookupFail(a, o)
  \/ \E a \in Args : LookupHit(a)
  \/ \E a \in Args : LookupMiss(a)
  \/ \E m \in MissCalls, set_ok \in BOOLEAN :
       \E o1, o2 \in FnOutcomes(fn_kind, m.args) : RunMiss(m, o1, set_ok, o2)
  \/ Deliver
  \/ \E key \in Keys : Expire(key)

(* ------------- evaluate_single_file, followed on its own --------------- *)
\* A result that also lists deductions, the key evaluate_single_file compares
\* (lines 64-66), next to the issues evaluate_all_files reads.
DetailedResult(deductions, issues) ==
  [status |-> "success", feedback |-> Feedback("llm", 0), total_points_lost |-> 0,
   deductions |-> deductions, result |-> ResultIssues(issues),
   topics_lacking |-> TopicsAbsent, tokens |-> Usage]

DetailedResults ==
  {DetailedResult(deductions, issues) :
     deductions \in {<<"d">>, <<"d", "e">>},
     issues \in {<<>>, <<Issue("a", IntVal(MaxPts))>>}}

\* what one external call may hand back to evaluate_single_file
SingleOutcomes == CallOutcomes \cup DetailedResults

\* the file name the single call is made for
SingleFile == 1

\* the call record: position, the results of the two external calls, the
\* verdict returned and the number of external calls issued
SingleCall(position, initial, double, final, calls) ==
  [pc |-> position, initial |-> initial, double |-> double, final |-> final,
   calls |-> calls]

\* on: evaluate_single_file is about to be called; otherwise it is not used
SingleStart(on) ==
  single = SingleCall(IF on THEN "initial" ELSE "off", None, None, None, 0)

\* evaluate_single_file, lines 37-46 and 78-79: the initial call
SingleInitialCall(r) ==
  /\ single.pc = "initial"
  /\ single' =
       IF r = Raised
       THEN SingleCall("done", r, None,
                       create_error_result(SingleFile, "exception"), 1)
       ELSE IF Falsy(r)
       THEN SingleCall("done", r, None,
                       create_error_result(SingleFile,
                                           "Failed to get initial evaluation"), 1)
       ELSE SingleCall("double", r, None, None, 1)
  /\ UNCHANGED <<response, parsed, llm_pair, overall>>
  /\ UNCHANGED <<evalVars, cacheVars>>

\* evaluate_single_file, lines 48-79: the double-check call and the choice
SingleDoubleCheckCall(r) ==
  /\ single.pc = "double"
  /\ single' =
       SingleCall("done", single.initial, r,
                  single_file_result(SingleFile, single.initial, r), 2)
  /\ UNCHANGED <<response, parsed, llm_pair, overall>>
  /\ UNCHANGED <<evalVars, cacheVars>>

SingleNext ==
  \/ \E r \in SingleOutcomes : SingleInitialCall(r)
  \/ \E r \in SingleOutcomes : SingleDoubleCheckCall(r)

(* ------------- _parse_evaluation_response, applied on its own ---------- *)
\* the parser has not been applied
NotParsed ==
  [status |-> "not parsed", feedback |-> Feedback("", 0), total_points_lost |-> 0,
   deductions |-> <<>>, result |-> ResultAbsent,
   topics_lacking |-> TopicsAbsent, tokens |-> AbsentVal]

\* the parser is about to be applied to one of the inputs
ParserStart(inputs) ==
  /\ response \in inputs
  /\ parsed = NotParsed

\* the word correct in three casings, another word, and a deduction line
CorrectWords == {"correct", "Correct", "CORRECT"}
DeductionLine == "Missing loop --> -3 points"
Words == CorrectWords \cup {"Loops", DeductionLine}

\* texts of at most MaxTokens tokens
Texts ==
  UNION {[1..n -> Words \cup Whitespace] : n \in 0..MaxTokens}

\* JSON values that are no object: a list, a number, a string, null
NonObjects == {<<"[1]">>, <<"7">>, <<"\"correct\"">>, <<"null">>}

\* the inputs of the parser: None, texts that are no JSON (the empty string
\* included), JSON values that are no object, and JSON objects with every
\* kind of points_lost
ParserInputs ==
  {RawNull}
    \cup {WithContent(RawText, text) : text \in Texts}
    \cup {WithContent(RawNonObject, text) : text \in NonObjects}
    \cup {WithContent(raw, text) :
            raw \in RawResponses, text \in {<<>>, <<"correct">>, <<DeductionLine>>}}

\* self._parse_evaluation_response(response['content'], filename)
Parse ==
  /\ parsed = NotParsed
  /\ parsed' = parse_evaluation_response(response)
  /\ UNCHANGED <<single, response, llm_pair, overall>>
  /\ UNCHANGED <<evalVars, cacheVars>>

ParserNext == Parse

(* --------------- the cache key of cache_llm_response ------------------- *)
\* positional arguments as the wrapper sees them: the instance of a bound
\* method, a string, a list of messages whose last user message is v and
\* whose system message is sys, and any other value
SelfArg == [t |-> "object", v |-> 0, sys |-> 0]
StrArg(text) == [t |-> "str", v |-> text, sys |-> 0]
MessagesArg(text, system) == [t |-> "list", v |-> text, sys |-> system]
OtherArg(value) == [t |-> "int", v |-> value, sys |-> 0]

\* the empty string
EmptyPrompt == 0

\* the prompt texts
Prompts == 1..NumArgs

\* the keyword arguments of a call: the prompt when passed by keyword
\* (EmptyPrompt: not passed) and one option such as a temperature
Kwargs(prompt, option) == [prompt |-> prompt, option |-> option]

\* the forms in which a call carries its prompt
PromptForms == {"str", "list", "kw"}

\* a call of the wrapped function: of a bound method or not, the prompt, the
\* form it is passed in, and bookkeeping passed positionally and by keyword
LlmCall(bound, form, prompt, extra, option) ==
  [bound |-> bound, form |-> form, prompt |-> prompt, extra |-> extra,
   option |-> option]

LlmCalls ==
  {LlmCall(bound, form, prompt, extra, option) :
     bound \in BOOLEAN, form \in PromptForms, prompt \in Prompts,
     extra \in 0..1, option \in 0..1}

\* *args of the call
args_of(call) ==
  (IF call.bound THEN <<SelfArg>> ELSE <<>>)
    \o (IF call.form = "str" THEN <<StrArg(call.prompt), OtherArg(call.extra)>>
        ELSE IF call.form = "list" THEN <<MessagesArg(call.prompt, call.extra)>>
        ELSE <<>>)

\* **kwargs of the call
kwargs_of(call) ==
  Kwargs(IF call.form = "kw" THEN call.prompt ELSE EmptyPrompt, call.option)

\* cache_llm_response, lines 196-206: the prompt content is read off args[0]
prompt_content(call_args) ==
  IF call_args = <<>> THEN EmptyPrompt
  ELSE IF call_args[1].t \in {"str", "list"} THEN call_args[1].v
  ELSE EmptyPrompt

\* line 208: generate_cache_key(f"llm:{func.__name__}", prompt_content, **kwargs)
llm_cache_key(call) ==
  generate_cache_key("llm", <<prompt_content(args_of(call)), kwargs_of(call)>>)

\* no key has been derived
NoKeys == <<>>

\* two calls, and the keys derived for them
LlmPair(first, second, keys) == [first |-> first, second |-> second, keys |-> keys]

\* two calls of the wrapped function are about to be made
LlmStart(calls) ==
  \E first \in calls : \E second \in calls :
    llm_pair = LlmPair(first, second, NoKeys)

\* the wrapper derives the key of each of the two calls
DeriveKeys ==
  /\ llm_pair.keys = NoKeys
  /\ llm_pair' = [llm_pair EXCEPT
                    !.keys = <<llm_cache_key(llm_pair.first),
                               llm_cache_key(llm_pair.second)>>]
  /\ UNCHANGED <<single, response, parsed, overall>>
  /\ UNCHANGED <<evalVars, cacheVars>>

KeyNext == DeriveKeys

(* -------- _create_overall_feedback_from_topics, applied on its own ------ *)
\* the tags of the lookup table, and tags it does not hold
MappedTags ==
  {"array_handling", "loop_control", "variable_scope", "function_definition",
   "conditional_statements", "input_output", "basic_calculations"}
UnmappedTags == {"loop_implementation", "loop implementation", "recursion"}
Tags == MappedTags \cup UnmappedTags

\* the sets of at most MaxTopics tags
TagSets == {S \in SUBSET Tags : Cardinality(S) <= MaxTopics}

\* the function has not been applied
NoFeedback == [k |-> "none", topics |-> <<>>, total |-> 0]

\* the call: the set of tags, the order in which the loop visits it, the
\* total of points lost, and the sentence returned
OverallCall(topics_lacking, order, total_points_lost, out) ==
  [topics_lacking |-> topics_lacking, order |-> order,
   total_points_lost |-> total_points_lost, out |-> out]

\* the function is about to be applied to one of the sets and totals
OverallStart(sets, totals) ==
  \E S \in sets : \E order \in Orders(S) : \E total \in totals :
    overall = OverallCall(S, order, total, NoFeedback)

\* self._create_overall_feedback_from_topics(all_topics_lacking, ...)
CreateOverallFeedback ==
  /\ overall.out = NoFeedback
  /\ overall' = [overall EXCEPT
                   !.out = create_overall_feedback_from_topics(
                             overall.topics_lacking, overall.order,
                             overall.total_points_lost)]
  /\ UNCHANGED <<single, response, parsed, llm_pair>>
  /\ UNCHANGED <<evalVars, cacheVars>>

OverallNext == CreateOverallFeedback

(* --------------------------- specifications ---------------------------- *)
\* a batch is evaluated; no cache wrapper is in use
Init ==
  /\ EvalStart({1..n : n \in 1..NumFiles})
  /\ RubricsStart(TRUE)
  /\ CacheStart({"api"}, {"dict"})
  /\ SingleStart(FALSE)
  /\ ParserStart({RawNull})
  /\ LlmStart({LlmCall(FALSE, "str", 1, 0, 0)})
  /\ OverallStart({{}}, {0})

Spec == Init /\ [][Next]_vars

\* calls of a function wrapped by one of the three decorators
CacheInit ==
  /\ EvalStart({{}})
  /\ RubricsStart(TRUE)
  /\ CacheStart(Wrappers, FnKinds)
  /\ SingleStart(FALSE)
  /\ ParserStart({RawNull})
  /\ LlmStart({LlmCall(FALSE, "str", 1, 0, 0)})
  /\ OverallStart({{}}, {0})

CacheSpec == CacheInit /\ [][CacheNext]_vars

\* a batch is evaluated with rubrics for any part of its files
RubricInit ==
  /\ EvalStart({1..n : n \in 1..NumFiles})
  /\ RubricsStart(FALSE)
  /\ CacheStart({"api"}, {"dict"})
  /\ SingleStart(FALSE)
  /\ ParserStart({RawNull})
  /\ LlmStart({LlmCall(FALSE, "str", 1, 0, 0)})
  /\ OverallStart({{}}, {0})

RubricSpec == RubricInit /\ [][Next]_vars

\* one call of evaluate_single_file with any two outcomes of the external call
SingleInit ==
  /\ EvalStart({{}})
  /\ RubricsStart(TRUE)
  /\ CacheStart({"api"}, {"dict"})
  /\ SingleStart(TRUE)
  /\ ParserStart({RawNull})
  /\ LlmStart({LlmCall(FALSE, "str", 1, 0, 0)})
  /\ OverallStart({{}}, {0})

SingleSpec == SingleInit /\ [][SingleNext]_vars

\* the parser applied to one input
ParserInit ==
  /\ EvalStart({{}})
  /\ RubricsStart(TRUE)
  /\ CacheStart({"api"}, {"dict"})
  /\ SingleStart(FALSE)
  /\ ParserStart(ParserInputs)
  /\ LlmStart({LlmCall(FALSE, "str", 1, 0, 0)})
  /\ OverallStart({{}}, {0})

ParserSpec == ParserInit /\ [][ParserNext]_vars

\* a batch of PoolFiles files is evaluated by MAX_WORKERS workers
PoolInit ==
  /\ EvalStart({1..PoolFiles})
  /\ RubricsStart(TRUE)
  /\ CacheStart({"api"}, {"dict"})
  /\ SingleStart(FALSE)
  /\ ParserStart({RawNull})
  /\ LlmStart({LlmCall(FALSE, "str", 1, 0, 0)})
  /\ OverallStart({{}}, {0})

PoolSpec == PoolInit /\ [][PoolNext]_vars /\ PoolFairness

\* two calls of a function wrapped by cache_llm_response
KeyInit ==
  /\ EvalStart({{}})
  /\ RubricsStart(TRUE)
  /\ CacheStart({"api"}, {"dict"})
  /\ SingleStart(FALSE)
  /\ ParserStart({RawNull})
  /\ LlmStart(LlmCalls)
  /\ OverallStart({{}}, {0})

KeySpec == KeyInit /\ [][KeyNext]_vars

\* the overall feedback written for one set of tags
OverallInit ==
  /\ EvalStart({{}})
  /\ RubricsStart(TRUE)
  /\ CacheStart({"api"}, {"dict"})
  /\ SingleStart(FALSE)
  /\ ParserStart({RawNull})
  /\ LlmStart({LlmCall(FALSE, "str", 1, 0, 0)})
  /\ OverallStart(TagSets, 0..MaxPts)

OverallSpec == OverallInit /\ [][OverallNext]_vars

(* ======================= claims on the evaluator ======================= *)
\* control has left evaluate_all_files
CallEnded == pc \in {"returned", "raised"}

\* the results of the report that are not error verdicts
NonError(results) == {i \in DOMAIN results : results[i].status # "error"}

RECURSIVE SumOver(_, _)
\* sum of g[i] over the finite set S of indices
SumOver(S, g) ==
  IF S = {} THEN 0
  ELSE LET i == CHOOSE j \in S : TRUE IN g[i] + SumOver(S \ {i}, g)

\* C1: evaluate_all_files never raises, whatever per-file results the tasks
\* hand back; every call ends by returning a report.
C1_NeverRaises == pc # "raised"

\* C2: a failed task becomes an error verdict of its own artifact only: every
\* artifact of the batch gets exactly one verdict, an artifact whose task
\* failed gets status error, and the batch completes with a report.
C2_FailureIsolated ==
  /\ \A f \in codes : task[f] = "done" /\ future[f].feedback.file # 0 =>
       future[f].status = "error" /\ future[f].feedback.file = f
  /\ \A i, j \in DOMAIN evaluation_results :
       evaluation_results[i].filename = evaluation_results[j].filename => i = j
  /\ CallEnded =>
       /\ pc = "returned"
       /\ {evaluation_results[i].filename : i \in DOMAIN evaluation_results} = codes

\* C3: the call ends only after every submitted task has completed and been
\* collected, and when it ends it ends by returning.
C3_ReturnsAfterAllTasks ==
  CallEnded =>
    /\ \A f \in codes : task[f] = "collected"
    /\ Len(evaluation_results) = Cardinality(codes)
    /\ pc = "returned"

\* C4: the report's total_points_lost is the sum of the total_points_lost
\* fields of the non-error verdicts of file_results.
C4_TotalIsSumOfVerdicts ==
  pc = "returned" =>
    report.total_points_lost =
      SumOver(NonError(report.file_results),
              [i \in DOMAIN report.file_results |->
                 report.file_results[i].total_points_lost])

\* C5: a success verdict returned by evaluate_single_file has
\* total_points_lost equal to the sum of the points of its deductions.
C5_PointsAreSumOfDeductions ==
  \A f \in codes :
    task[f] = "done" /\ future[f].status = "success" =>
      future[f].total_points_lost = SumSeq(future[f].deductions)

\* C6: every error verdict of a report has total_points_lost 0 and no
\* issues, is shown as an error in lab_feedback, and adds nothing to the
\* report's total_points_lost, which is the sum of the points of the issues
\* of the other verdicts.
C6_ErrorVerdictsAreEmpty ==
  pc = "returned" =>
    LET results == report.file_results
    IN /\ \A i \in DOMAIN results :
            results[i].status = "error" =>
              /\ results[i].total_points_lost = 0
              /\ results[i].deductions = <<>>
              /\ results[i].result.issues = <<>>
              /\ report.lab_feedback[evaluation_results[i].filename].k = "error"
       /\ report.total_points_lost =
            SumOver(NonError(results),
                    [i \in DOMAIN results |->
                       file_points_lost(results[i].result.issues)])

\* C6 witness: a report with an error verdict chosen by reconciliation (the
\* external call's own error result), one the task created for a null
\* initial result or an exception, and a non-zero total from another file.
C6_Witness ==
  /\ pc = "returned"
  /\ \E i \in DOMAIN report.file_results :
       /\ report.file_results[i].status = "error"
       /\ report.file_results[i].feedback.msg = "PARSE_ERROR"
  /\ report.total_points_lost > 0

C6_Witness_TaskError ==
  /\ pc = "returned"
  /\ \E i, j \in DOMAIN report.file_results :
       /\ report.file_results[i].feedback.msg = "Failed to get initial evaluation"
       /\ report.file_results[j].feedback.msg = "exception"


\* C14: points are non-negative everywhere in a verdict and in the report,
\* also when the external model reports a negative number: the
\* total_points_lost of every verdict, every deduction shown in lab_feedback
\* and the total_points_lost of the report are >= 0.
C14_PointsNonNegative ==
  pc = "returned" =>
    /\ report.total_points_lost >= 0
    /\ \A i \in DOMAIN report.file_results :
         report.file_results[i].total_points_lost >= 0
    /\ \A f \in DOMAIN report.lab_feedback :
         \A d \in DOMAIN report.lab_feedback[f].issues :
           report.lab_feedback[f].issues[d] >= 0

\* C15: an artifact without an entry in the rubrics mapping is skipped: no
\* task is submitted for it, no external call is made for it, and the report
\* holds no verdict for it.
C15_NoRubricSkipped ==
  \A f \in codes :
    file_rubric(f) = "empty" =>
      /\ task[f] = "idle"
      /\ pc = "returned" => f \notin DOMAIN report.lab_feedback

\* the verdicts of the report that have status error
ErrorVerdicts(rep) ==
  {i \in DOMAIN rep.file_results : rep.file_results[i].status = "error"}

\* C16: when at least one verdict of the batch has status error, the overall
\* feedback is the error message (number of erroring artifacts and the total
\* of points lost), ahead of every other message; it is never the success
\* message.
C16_ErrorsTakePriority ==
  (pc = "returned" /\ ErrorVerdicts(report) # {}) =>
    /\ report.overall_feedback.k = "errors"
    /\ report.overall_feedback.total = report.total_points_lost

\* the mapping artifact name -> verdict that the collection loop has built
VerdictOf(f) ==
  LET i == CHOOSE j \in DOMAIN evaluation_results :
             evaluation_results[j].filename = f
  IN evaluation_results[i].result

\* C20: total_points_lost, lab_feedback and overall_feedback of the report
\* are a function of the mapping artifact name -> verdict alone: they are the
\* values computed from the mapping file by file, whatever the completion
\* order of the tasks and whatever the order in which the set of topics is
\* visited.
C20_ReportIsFunctionOfMapping ==
  pc = "returned" =>
    LET formatted == [f \in codes |-> format_result(VerdictOf(f))]
        total == SumOver(codes, [f \in codes |-> formatted[f].points])
        topics == UNION {formatted[f].topics : f \in codes}
    IN /\ report.total_points_lost = total
       /\ report.lab_feedback = [f \in codes |-> formatted[f].lab]
       /\ \A order \in Orders(topics) :
            report.overall_feedback =
              create_overall_feedback_from_topics(topics, order, total)

(* ===================== claims on the cache wrappers ==================== *)
\* a wrapper call has just ended
CallReturned == returned # NoReturn

\* the payload a caller is owed when fn returned result: the value itself;
\* the data of the DRF Response, in the envelope of cache_api_response
payload_of(result) ==
  IF wrapper = "api" /\ result.k = "Response" THEN data_of(result) ELSE result

\* the answer hands the payload of result to the caller
Carries(answer, result) ==
  /\ answer.body \in {"data", "result_str", "value"}
  /\ answer.value = payload_of(result)

\* C7: two sequential calls with identical operation and arguments, within
\* the TTL and with the backend available, execute fn exactly once in total,
\* whatever fn returns (None included), and the second call is a hit. The
\* first call finds no entry and runs fn once; the second call finds the
\* entry that the first one stored and does not run fn.
C7_SecondCallIsHit ==
  (CallReturned /\ returned.lookup = "ok" /\ ~returned.fn_raised) =>
    IF returned.seen = Missing
    THEN returned.fn_runs = 1
    ELSE returned.fn_runs = 0 /\ returned.insights.cache_hit

\* C8: on a lookup hit the wrapper does not execute fn, marks the insight
\* hit=true, and hands back the value the earlier miss stored for the key in
\* the shape the miss handed it back, whatever the type of fn's result.
C8_HitReturnsStoredValue ==
  (CallReturned /\ returned.path = "hit") =>
    /\ returned.fn_runs = 0
    /\ returned.insights.cache_hit
    /\ returned.answer.value = returned.seen
    /\ returned.answer.body = miss_answer(wrapper, returned.seen, TRUE).body
    /\ wrapper = "api" =>
         /\ returned.answer.attached.present
         /\ returned.answer.attached.ins.cache_hit

\* C9: when the backend is unavailable at the lookup, the wrapper executes fn
\* and gives fn's result back without raising, whatever its type; the
\* envelope of cache_api_response carries an insight with cache_error=true.
C9_DegradesWhenBackendDown ==
  (CallReturned /\ returned.lookup = "failed" /\ ~returned.fn_raised) =>
    /\ returned.fn_runs = 1
    /\ Carries(returned.answer, returned.fn_result)
    /\ wrapper = "api" =>
         /\ returned.answer.attached.present
         /\ returned.answer.attached.ins.cache_error

\* C10: on a miss of cache_api_response on which fn succeeds, the caller
\* receives fn's result and fn ran once; the insight attached to the envelope
\* has cache_error=true and cache_set=false when cache.set failed, and
\* cache_set=true when it succeeded.
C10_StoreOutcomeInInsight ==
  (CallReturned /\ wrapper = "api" /\ returned.path = "miss") =>
    /\ returned.fn_runs = 1
    /\ Carries(returned.answer, returned.fn_result)
    /\ returned.answer.attached.present
    /\ returned.set = "failed" =>
         /\ returned.answer.attached.ins.cache_error
         /\ ~returned.answer.attached.ins.cache_set
    /\ returned.set = "ok" => returned.answer.attached.ins.cache_set


(* ===================== claims on evaluate_single_file ================== *)
\* evaluate_single_file has returned after both external calls returned a
\* result dict
BothResults ==
  /\ single.pc = "done"
  /\ single.calls = 2
  /\ single.initial.status \in {"success", "error"}
  /\ single.double.status \in {"success", "error"}

\* the number of issues the batch report counts and scores for a result
\* (evaluate_all_files, lines 144-162)
NumIssues(result) ==
  IF result.status # "error" THEN Len(result.result.issues) ELSE 0

\* C11: for non-null initial and double-check results the verdict is the
\* double-check result exactly when (a) the initial result is an error and
\* the double-check is not, or (b) the double-check lists strictly more
\* issues than the initial; otherwise it is the initial result.
C11_PicksMoreThorough ==
  BothResults =>
    IF \/ single.initial.status = "error" /\ single.double.status # "error"
       \/ NumIssues(single.double) > NumIssues(single.initial)
    THEN single.final = single.double
    ELSE single.final = single.initial

\* C12: when exactly one of the two results is an error, the verdict is the
\* other one, whichever call produced the error.
C12_NonErrorWins ==
  BothResults =>
    /\ (single.initial.status = "error" /\ single.double.status # "error")
         => single.final = single.double
    /\ (single.initial.status # "error" /\ single.double.status = "error")
         => single.final = single.initial

\* the initial result is an error, the double-check result is not and lists
\* issues, and the call has returned
C12_Witness ==
  /\ BothResults
  /\ single.initial.status = "error" /\ single.double.status = "success"
  /\ single.double.result.issues # <<>>
  /\ single.final = single.double

\* the double-check result is the error, the initial result lists deductions
C12_Witness_ErrorSecond ==
  /\ BothResults
  /\ single.initial.status = "success" /\ single.double.status = "error"
  /\ single.initial.deductions # <<>>
  /\ single.final = single.initial

\* C13: a null response of one call does not abort the evaluation. After a
\* null initial result the double-check call is still issued and its
\* non-error result is the verdict; after a null double-check result the
\* initial result is the verdict.
C13_NullTolerated ==
  single.pc = "done" =>
    /\ single.initial = None =>
         /\ single.calls = 2
         /\ single.double.status = "success" => single.final = single.double
    /\ (single.calls = 2 /\ single.double = None
          /\ single.initial.status \in {"success", "error"})
         => single.final = single.initial


(* ================ claims on _parse_evaluation_response ================= *)
\* the parser has returned or raised
ParseEnded == parsed # NotParsed

\* C17: _parse_evaluation_response never raises, whatever its input (None,
\* the empty string, text that is no JSON, JSON that is no object, any
\* points_lost); it returns a result whose status is success or error.
C17_ParserNeverRaises ==
  ParseEnded => parsed.status \in {"success", "error"}

\* the parser was given JSON that is no object and returned an error result
C17_Witness ==
  /\ ParseEnded
  /\ response.k = "nonobj"
  /\ parsed.status = "error"

\* the response is the word correct, in some casing, between whitespace
IsCorrectWord(raw) ==
  /\ raw.k = "text"
  /\ \E i \in DOMAIN raw.content :
       /\ raw.content[i] \in CorrectWords
       /\ \A j \in DOMAIN raw.content \ {i} : raw.content[j] \in Whitespace

\* C18: for the word correct in any casing and with any surrounding
\* whitespace the parser returns one and the same clean verdict: status
\* success, no issues, total_points_lost 0, marked with the literal "correct".
C18_CorrectAnyCasing ==
  (ParseEnded /\ IsCorrectWord(response)) =>
    /\ parsed.status = "success"
    /\ parsed.total_points_lost = 0
    /\ parsed.deductions = <<>> /\ parsed.result.issues = <<>>
    /\ \/ parsed.feedback.text = <<"correct">>
       \/ parsed.result = ResultCorrect

\* the response is text that is no JSON and holds a deduction line
HasDeductionLine(raw) ==
  /\ raw.k = "text"
  /\ \E i \in DOMAIN raw.content : raw.content[i] = DeductionLine

\* C19: for text that is no JSON and holds a line "<description> --> -N
\* points" with N > 0, the parser returns a result that lists at least one
\* issue with a deduction that is not zero.
C19_FallbackExtractsIssues ==
  (ParseEnded /\ HasDeductionLine(response)) =>
    /\ parsed.status = "success"
    /\ \/ parsed.deductions # <<>>
       \/ \E i \in DOMAIN parsed.result.issues :
            ~issue_raises(parsed.result.issues[i])
            /\ issue_points(parsed.result.issues[i]) # 0

(* =================== claims on the key of an LLM call =================== *)
\* the wrapper has derived the keys of both calls
KeysDerived == llm_pair.keys # NoKeys

\* C21: two calls of a function wrapped by cache_llm_response that carry the
\* same prompt text get the same cache key, whatever their other arguments
\* are, and two calls whose prompt text differs get different keys, however
\* the prompt is passed (string first argument, message list, keyword
\* argument, bound method).
C21_KeyFollowsPrompt ==
  KeysDerived =>
    (llm_pair.first.prompt = llm_pair.second.prompt
       <=> llm_pair.keys[1] = llm_pair.keys[2])

(* ===================== claims on the overall feedback =================== *)
\* the sentence names topics
NamesTopics == overall.out.k \in {"good_progress", "needs_improvement"}

\* C24: the phrases joined into overall_feedback contain no duplicates, even
\* when two distinct tags map to the same phrase.
C24_NoDuplicatePhrase ==
  NamesTopics =>
    \A i, j \in DOMAIN overall.out.topics :
      overall.out.topics[i] = overall.out.topics[j] => i = j

(* ================= claims on the responses of the wrappers ============== *)
\* the result fn returned on the miss that stored the entry: the stored dict
\* is the data of the DRF Response when fn returns Responses
populating_result(entry) ==
  IF fn_kind = "Response" THEN Value("Response", entry.v, entry.of) ELSE entry

\* the response the endpoint gave on the miss that stored the entry
first_response(entry) == miss_answer(wrapper, populating_result(entry), TRUE)

\* a request to a cache_api_response endpoint was answered from the cache
ApiHit == CallReturned /\ wrapper = "api" /\ returned.path = "hit"

\* C22: of two successive requests to the same cache_api_response endpoint
\* within the TTL, the first answered with status 200, the second also
\* returns status 200 and its data is identical to the data of the first.
C22_SecondResponseEqualsFirst ==
  (ApiHit /\ first_response(returned.seen).status_code = "200") =>
    /\ returned.answer.status_code = "200"
    /\ returned.answer.body = first_response(returned.seen).body
    /\ returned.answer.value = first_response(returned.seen).value
    /\ returned.answer.attached = first_response(returned.seen).attached

\* C23: every response returned through a cache_api_response endpoint carries
\* a cache_insights record (with the fields cache_hit and cache_miss) on
\* every path: miss, hit of any type of cached value, store failure and
\* backend failure.
C23_EveryResponseHasInsights ==
  (CallReturned /\ wrapper = "api" /\ returned.answer.body # "raised") =>
    returned.answer.attached.present

\* C27: within one wrapper call fn is executed at most once, also when fn
\* raises on the miss path: the exception reaches the caller after a single
\* execution and is not recorded as a failure of the cache backend.
C27_FnRunsAtMostOnce ==
  CallReturned =>
    /\ returned.fn_runs <= 1
    /\ (returned.fn_raised /\ returned.lookup = "ok") =>
         /\ returned.answer = AnswerRaised
         /\ ~returned.insights.cache_error

\* the value is None or was computed by fn for the arguments a
ProducedFor(value, a) == value = NoneValue \/ value.of = a

\* C28: cache_db_query and cache_llm_response hold no lock between cache.get,
\* fn and cache.set; of up to NumCallers concurrent calls with the same key,
\* each runs fn at most once and a call that finds no entry runs it once (so
\* k calls on an empty cache run fn between 1 and k times), every caller gets
\* a value fn produced for its arguments (its own or the stored one), and
\* every entry in the cache is the result of an execution of fn for the
\* arguments of its key.
C28_UnlockedCallsStayConsistent ==
  wrapper \in {"db", "llm"} =>
    /\ \A key \in Keys :
         cache[key] # Missing => ProducedFor(cache[key], key[2])
    /\ CallReturned =>
         /\ returned.fn_runs <= 1
         /\ returned.path # "hit" => returned.fn_runs >= 1
         /\ returned.answer.body # "raised" =>
              /\ ProducedFor(returned.answer.value, returned.args)
              /\ returned.answer.value \in {returned.fn_result, returned.seen}

\* C29: on a hit cache_api_response returns the HTTP status of the response
\* fn produced on the miss that stored the entry; an error response is not
\* replayed with status 200.
C29_HitKeepsStatus ==
  (ApiHit /\ fn_kind = "Response") =>
    returned.answer.status_code = populating_result(returned.seen).status_code

(* ================== claims on the counters of the batch ================= *)
\* C25: the llm_calls_count of the report equals the number of external
\* model calls the tasks of the batch issued (two for a file whose initial
\* call returned a result, one for a file whose initial call returned null),
\* the calls made for files whose verdict is an error included.
C25_CountsIssuedCalls ==
  pc = "returned" => report.llm_calls_count = calls_issued

\* C30: after evaluate_all_files returns, every artifact of the batch has
\* exactly one entry in lab_feedback and one element in file_results, no
\* other name appears, and files_evaluated is that number of entries,
\* whatever mix of success, error and exception outcomes the tasks had.
C30_OneEntryPerArtifact ==
  pc = "returned" =>
    /\ DOMAIN report.lab_feedback = codes
    /\ Len(report.file_results) = Cardinality(codes)
    /\ \A f \in codes :
         Cardinality({i \in DOMAIN report.file_results :
                        /\ evaluation_results[i].filename = f
                        /\ evaluation_results[i].result = report.file_results[i]}) = 1
    /\ report.files_evaluated = Cardinality(DOMAIN report.lab_feedback)

\* a report for a batch in which one task raised and another succeeded
C30_Witness ==
  /\ pc = "returned"
  /\ Cardinality(codes) >= 2
  /\ \E i, j \in DOMAIN report.file_results :
       /\ report.file_results[i].status = "error"
       /\ report.file_results[i].feedback.msg = "exception"
       /\ report.file_results[j].status # "error"

(* ===================== claims on the worker pool ======================== *)
\* C26: evaluate_all_files submits exactly one task per artifact of the
\* batch; in every reachable state at most MAX_WORKERS tasks are running;
\* the other tasks wait and each of them is eventually started.
C26_PoolBoundsRunningTasks ==
  /\ [](Cardinality(Running) <= MAX_WORKERS)
  /\ [](pc # "submit" => \A f \in Files : f \in codes <=> task[f] # "idle")
  /\ [][\A f \in Files : task'[f] = "queued" => task[f] \in {"idle", "queued"}]_vars
  /\ \A f \in Files : (task[f] = "queued") ~> (task[f] # "queued")

\* the pool is full and a task of the batch is waiting
C26_Witness ==
  /\ Cardinality(Running) = MAX_WORKERS
  /\ \E f \in codes : task[f] = "queued"

============================================================================
